---- MODULE Spec2Model ----
(***************************************************************************)
(* Model of the RENEW channel sounder core:                                *)
(*   - Config::Config, the reciprocal-calibration schedule generator       *)
(*   - Sounder::Recorder (constructor, gc, destructor, do_it) together     *)
(*     with main(), the receive workers and the recorder workers.          *)
(***************************************************************************)
EXTENDS Integers, Sequences, FiniteSets, TLC

(***************************************************************************)
(* Bounds of the model.                                                    *)
(***************************************************************************)
MaxCells == 2
MaxSdrs == 4

RECURSIVE SumSeq(_)
SumSeq(s) == IF s = <<>> THEN 0 ELSE Head(s) + SumSeq(Tail(s))

\* Sequences over S of length 1..n
SeqsUpTo(S, n) == UNION {[1..k -> S] : k \in 1..n}

\* number of positions of string s holding character x
CountChar(s, x) == Cardinality({k \in 1..Len(s) : s[k] = x})

(***************************************************************************)
(* Variables of the configuration phase (Config::Config, reciprocal mode). *)
(***************************************************************************)
VARIABLES
    n_bs_sdrs_,       \* SDRs per cell (sequence indexed by cell + 1)
    num_channels,     \* bs_channel_.size(): 1 for "A"/"B", 2 for "AB"
    cal_ref_sdr_id_,  \* reference SDR index
    calib_frames_,    \* calib_frames_[c+1][i+1]: frame string of SDR i of cell c
    symbols_per_frame_,
    cal_c,            \* loop variable c of the generator
    cal_i,            \* loop variable i of the generator
    cal_pc            \* position inside the generator

calVars == <<n_bs_sdrs_, num_channels, cal_ref_sdr_id_, calib_frames_,
             symbols_per_frame_, cal_c, cal_i, cal_pc>>

(***************************************************************************)
(* Variables of the Recorder, of main() and of the worker threads.          *)
(***************************************************************************)
VARIABLES
    rx_thread_num,      \* cfg_->rx_thread_num()
    task_thread_num,    \* cfg_->task_thread_num()
    total_antennas,     \* cfg_->getTotNumAntennas()
    core_alloc,         \* cfg_->core_alloc()
    client_present,     \* cfg_->client_present()
    running,            \* cfg_->running()
    exit_signal,        \* SignalHandler::gotExitSignal()
    pc,                 \* position of the main thread
    receiver_,          \* "null", "live" or "dropped"
    rx_buffer_,         \* "null", "allocated" or "freed"
    ring_frees,         \* how many times the ring arrays were passed to delete[]
    pkg_buf_inuse,      \* pkg_buf_inuse[w][slot]: in-use flag of a ring slot
    ring_pkt,           \* ring_pkt[w][slot]: header of the packet in the slot
    queue_made,         \* message_queue_ has been constructed
    message_queue_,     \* message_queue_[w]: sub-queue of producer w
    recv_thread,        \* recv_thread[w]: "none", "running", "exited", "joined"
    cursor,             \* cursor[w]: next ring slot of receive worker w
    next_frame,         \* next_frame[w]: symbols captured by worker w so far
    thread_antennas,    \* local of do_it
    recorders_,         \* recorders_: indices of the RecorderThread pointers held
    rec_thread,         \* rec_thread[i]: "none", "running", "exited", "joined"
    event_queue,        \* event_queue[i]: input queue of recorder i
    trace,              \* trace[i]: packets recorder i appended to the trace
    events_list,        \* the dequeued bulk
    bulk_count,         \* index into events_list
    client_threads,     \* startClientThreads() has been called
    go_calls,           \* number of calls of receiver_->go()
    published,          \* history: published[a], frames published for antenna a
    sent,               \* history: sent[a], <<recorder, frame>> enqueued for a
    stop_sent,          \* history: recorders that were sent Stop
    after_cancel,       \* history: events dispatched since cancellation
    do_it_called,       \* history: do_it was entered
    rec_shard,          \* rec_shard[i]: <<first antenna, count>> given to recorder i
    enqueue_failed,     \* history: DispatchWork has returned false
    cancel_in_loop      \* history: cancellation arrived while do_it was in its loop

recVars == <<rx_thread_num, task_thread_num, total_antennas, core_alloc,
             client_present, running, exit_signal, pc, receiver_, rx_buffer_,
             ring_frees, pkg_buf_inuse, ring_pkt, queue_made, message_queue_,
             recv_thread, cursor, next_frame, thread_antennas, recorders_,
             rec_thread, event_queue, trace, events_list, bulk_count,
             client_threads, go_calls, published, sent, stop_sent,
             after_cancel, do_it_called, rec_shard, enqueue_failed,
             cancel_in_loop>>

(***************************************************************************)
(* Variables of the slot-role queries of Config.                           *)
(***************************************************************************)
VARIABLES
    reciprocal_calib_,  \* Config::reciprocal_calib_
    frames_,            \* Config::frames_: one frame string per cell
    q_fn,               \* the query that was called last ("none" before any)
    q_frame,            \* its frame_id argument
    q_slot,             \* its symbol_id argument
    q_ret,              \* its return value (a bool is 1 or 0)
    q_fault             \* the call did not return: it faulted

qVars == <<reciprocal_calib_, frames_, q_fn, q_frame, q_slot, q_ret, q_fault>>

(***************************************************************************)
(* Variables of the PHY part of Config::Config: sizes, beacon, pilot.      *)
(***************************************************************************)
VARIABLES
    symbol_per_subframe_,
    fft_size_,
    cp_size_,
    prefix_,
    postfix_,
    pilot_seq_,           \* "lts" or "zadoff-chu"
    ofdm_symbol_size_,
    subframe_size_,
    samps_per_symbol_,
    beacon_ci16_size,     \* beacon_ci16_.size()
    beacon_size_,
    beacon_i,             \* loop variable i of the two beacon loops
    pilot_size,           \* pilot_.size()
    phy_pc                \* position inside the constructor

phyVars == <<symbol_per_subframe_, fft_size_, cp_size_, prefix_, postfix_,
             pilot_seq_, ofdm_symbol_size_, subframe_size_, samps_per_symbol_,
             beacon_ci16_size, beacon_size_, beacon_i, pilot_size, phy_pc>>

(***************************************************************************)
(* Variables of the thread settings of Config::Config and of the sizes     *)
(* the Recorder constructor derives from them.                             *)
(***************************************************************************)
VARIABLES
    num_cores,            \* Config::getCoreCount()
    bs_present_,
    client_present_,
    num_cl_sdrs_,
    task_thread,          \* the "task_thread" value of the configuration
    core_alloc_,
    rx_thread_num_,
    task_thread_num_,
    ant_per_rx_thread,    \* local of Recorder::Recorder
    rx_thread_buff_size_,
    thr_pc                \* position: schedule, thread settings, Recorder

thrVars == <<num_cores, bs_present_, client_present_, num_cl_sdrs_,
             task_thread, core_alloc_, rx_thread_num_, task_thread_num_,
             ant_per_rx_thread, rx_thread_buff_size_, thr_pc>>

cfgVars == <<qVars, phyVars, thrVars>>

vars == <<calVars, recVars, cfgVars>>

\* std::string(n, ch)
StringOf(n, ch) == [k \in 1..n |-> ch]

\* std::string::replace(pos, 1, x) for a one-character x: pos is zero based;
\* pos == size() is legal and inserts at the end, pos > size() throws
\* std::out_of_range (modelled by the caller; here the string is unchanged).
Replace(s, pos, x) ==
    IF pos < Len(s)
    THEN SubSeq(s, 1, pos) \o <<x>> \o SubSeq(s, pos + 2, Len(s))
    ELSE IF pos = Len(s) THEN s \o <<x>>
    ELSE s

\* frame_length = num_channels * n_bs_sdrs_[c] - (num_channels - 1)
FrameLength(nch, n) == nch * n - (nch - 1)

\* offset of the reference SDR's pilot: num_channels * cal_ref_sdr_id_
RefPilotPos(nch, ref) == nch * ref

\* offset of SDR i's pilot on channel ch: i * num_channels + ch
PilotPos_NoStride(nch, i, ch) == i + ch
PilotPos(nch, i, ch) == i * nch + ch

\* offset written 'R' in the reference frame for SDR i, channel ch
RefRxPos_OneChannel(nch, i, ch) == nch * i
RefRxPos(nch, i, ch) == nch * i + ch

\* the inner loop over ch of one non-reference SDR i: ch = from .. nch-1,
\* fr is calib_frames_[c][i], rf is calib_frames_[c][cal_ref_sdr_id_]
RECURSIVE ChannelLoop(_, _, _, _, _)
ChannelLoop(fr, rf, nch, i, from) ==
    IF from >= nch THEN <<fr, rf>>
    ELSE ChannelLoop(Replace(fr, PilotPos(nch, i, from), "P"),
                     Replace(rf, RefRxPos(nch, i, from), "R"),
                     nch, i, from + 1)

CalInit ==
    /\ n_bs_sdrs_ \in SeqsUpTo(1..MaxSdrs, MaxCells)
    /\ num_channels \in {1, 2}
    /\ cal_ref_sdr_id_ \in 0..(SumSeq(n_bs_sdrs_) - 1)
    /\ calib_frames_ = [c \in 1..Len(n_bs_sdrs_) |-> <<>>]
    /\ symbols_per_frame_ = 0
    /\ cal_c = 0
    /\ cal_i = 0
    /\ cal_pc = "cell"

\* lines 157-164: resize the cell's frame list, build the reference frame.
\* Indexing calib_frames_[c] at cal_ref_sdr_id_ >= n_bs_sdrs_[c] is an access
\* past the end of the vector: undefined behaviour, which either faults or
\* corrupts the heap.
CalibRefFrame ==
    /\ cal_pc = "cell"
    /\ cal_c < Len(n_bs_sdrs_)
    /\ LET n == n_bs_sdrs_[cal_c + 1]
           len == FrameLength(num_channels, n)
       IN IF cal_ref_sdr_id_ < n
          THEN /\ calib_frames_' =
                    [calib_frames_ EXCEPT ![cal_c + 1] =
                        [k \in 1..n |->
                            IF k = cal_ref_sdr_id_ + 1
                            THEN Replace(StringOf(len, "G"),
                                         RefPilotPos(num_channels, cal_ref_sdr_id_),
                                         "P")
                            ELSE <<>>]]
               /\ cal_pc' = "sdr"
          ELSE /\ calib_frames_' = calib_frames_
               /\ cal_pc' \in {"fault", "corrupt"}
    /\ cal_i' = 0
    /\ UNCHANGED <<n_bs_sdrs_, num_channels, cal_ref_sdr_id_,
                   symbols_per_frame_, cal_c>>
    /\ UNCHANGED <<recVars, cfgVars>>

\* lines 165-177: one iteration of the loop over the SDRs of the cell
CalibSdr ==
    /\ cal_pc = "sdr"
    /\ cal_i < n_bs_sdrs_[cal_c + 1]
    /\ LET n == n_bs_sdrs_[cal_c + 1]
           len == FrameLength(num_channels, n)
           cell == calib_frames_[cal_c + 1]
           r == cal_ref_sdr_id_ + 1
           pr == ChannelLoop(StringOf(len, "G"), cell[r], num_channels, cal_i, 0)
       IN calib_frames_' =
            IF cal_i # cal_ref_sdr_id_
            THEN [calib_frames_ EXCEPT ![cal_c + 1] =
                    [cell EXCEPT
                        ![cal_i + 1] = Replace(pr[1],
                                          RefPilotPos(num_channels, cal_ref_sdr_id_),
                                          "R"),
                        ![r] = pr[2]]]
            ELSE calib_frames_
    /\ cal_i' = cal_i + 1
    /\ UNCHANGED <<n_bs_sdrs_, num_channels, cal_ref_sdr_id_,
                   symbols_per_frame_, cal_c, cal_pc>>
    /\ UNCHANGED <<recVars, cfgVars>>

\* end of the loop over i: next cell
CalibNextCell ==
    /\ cal_pc = "sdr"
    /\ cal_i = n_bs_sdrs_[cal_c + 1]
    /\ cal_c' = cal_c + 1
    /\ cal_pc' = "cell"
    /\ UNCHANGED <<n_bs_sdrs_, num_channels, cal_ref_sdr_id_, calib_frames_,
                   symbols_per_frame_, cal_i>>
    /\ UNCHANGED <<recVars, cfgVars>>

\* lines 179-183: symbols_per_frame_ = calib_frames_.at(0).size()
CalibFinish ==
    /\ cal_pc = "cell"
    /\ cal_c = Len(n_bs_sdrs_)
    /\ symbols_per_frame_' = Len(calib_frames_[1])
    /\ cal_pc' = "done"
    /\ UNCHANGED <<n_bs_sdrs_, num_channels, cal_ref_sdr_id_, calib_frames_,
                   cal_c, cal_i>>
    /\ UNCHANGED <<recVars, cfgVars>>

CalNext == CalibRefFrame \/ CalibSdr \/ CalibNextCell \/ CalibFinish


(***************************************************************************)
(* Recorder, main(), receive workers and recorder workers.                 *)
(***************************************************************************)

\* Bounds of the recorder model.  RingSlots stands for rx_thread_buff_size_
\* (packet slots of one receive worker's ring), MsgQueueCap and RecQueueCap
\* for the number of events the dispatch queue and a recorder's input queue
\* (both constructed with rx_thread_buff_size_ * kQueueSize) accept before
\* try_enqueue fails, MaxFrames for the number of symbols one receive
\* worker captures.
MaxRxThreads == 2
MaxRecorders == 2
MaxAntennas == 2
RingSlots == 2
MsgQueueCap == 2
RecQueueCap == 1
MaxFrames == 2

\* dequeue bulk size, used to reduce the overhead of dequeue in main thread
KDequeueBulkSize == 5


Workers == 0..(rx_thread_num - 1)
RecorderIds == 0..(task_thread_num - 1)
Antennas == 0..(total_antennas - 1)
Slots == 0..(RingSlots - 1)

\* thread_antennas = total / recorder_threads, plus one when antennas are left
ThreadAntennas(total, nrec) ==
    (total \div nrec) + (IF total % nrec # 0 THEN 1 ELSE 0)

\* thread_index = event.ant_id / thread_antennas
ThreadIndex_Modulo(ant, ta) == ant % ta
ThreadIndex(ant, ta) == ant \div ta

\* antennas owned by receive worker w: [w*A, (w+1)*A), A = ceil(total / recorders)
Owned(w) ==
    IF task_thread_num = 0 THEN {}
    ELSE {a \in Antennas :
            a \div ThreadAntennas(total_antennas, task_thread_num) = w}

\* ring offset carried by an event: worker w, slot s
Offset(w, s) == w * RingSlots + s
OffsetWorker(off) == off \div RingSlots
OffsetSlot(off) == off % RingSlots

NoPkt == [ant |-> -1, frame |-> 0]

RECURSIVE TotalLen(_, _)
TotalLen(q, ws) ==
    IF ws = {} THEN 0
    ELSE LET w == CHOOSE x \in ws : TRUE
         IN Len(q[w]) + TotalLen(q, ws \ {w})


\* the process is still executing
Alive == pc \notin {"exit_ok", "exit_fail", "crashed"}

\* the state of the recorder model while only the configuration is studied
RecIdle ==
    /\ rx_thread_num = 0 /\ task_thread_num = 0 /\ total_antennas = 1
    /\ core_alloc = FALSE /\ client_present = FALSE
    /\ running = TRUE /\ exit_signal = FALSE /\ pc = "config"
    /\ receiver_ = "null" /\ rx_buffer_ = "null" /\ ring_frees = 0
    /\ pkg_buf_inuse = <<>> /\ ring_pkt = <<>>
    /\ queue_made = FALSE /\ message_queue_ = <<>>
    /\ recv_thread = <<>> /\ cursor = <<>> /\ next_frame = <<>>
    /\ thread_antennas = 0 /\ recorders_ = {}
    /\ rec_thread = <<>> /\ event_queue = <<>> /\ trace = <<>>
    /\ events_list = <<>> /\ bulk_count = 0
    /\ client_threads = FALSE /\ go_calls = 0
    /\ published = <<>> /\ sent = <<>> /\ stop_sent = {}
    /\ after_cancel = 0 /\ do_it_called = FALSE
    /\ rec_shard = <<>> /\ enqueue_failed = FALSE /\ cancel_in_loop = FALSE

\* the state of the configuration model while the recorder is studied
CalIdle ==
    /\ n_bs_sdrs_ = <<1>> /\ num_channels = 1 /\ cal_ref_sdr_id_ = 0
    /\ calib_frames_ = <<<<>>>> /\ symbols_per_frame_ = 0
    /\ cal_c = 0 /\ cal_i = 0 /\ cal_pc = "off"

\* main(): the Config exists (running_ is true, line 487) and the signal
\* handlers are installed; Sounder::Recorder dr(&config) comes next.
RecInit ==
    /\ rx_thread_num \in 0..MaxRxThreads
    /\ task_thread_num \in (IF rx_thread_num = 0 THEN {0} ELSE 1..MaxRecorders)
    /\ total_antennas \in 1..MaxAntennas
    /\ core_alloc \in BOOLEAN
    /\ client_present \in BOOLEAN
    /\ running = TRUE
    /\ exit_signal = FALSE
    /\ pc = "new"
    /\ receiver_ = "null"
    /\ rx_buffer_ = "null"
    /\ ring_frees = 0
    /\ pkg_buf_inuse = [w \in Workers |-> [s \in Slots |-> 0]]
    /\ ring_pkt = [w \in Workers |-> [s \in Slots |-> NoPkt]]
    /\ queue_made = FALSE
    /\ message_queue_ = [w \in Workers |-> <<>>]
    /\ recv_thread = [w \in Workers |-> "none"]
    /\ cursor = [w \in Workers |-> 0]
    /\ next_frame = [w \in Workers |-> 0]
    /\ thread_antennas = 0
    /\ recorders_ = {}
    /\ rec_thread = [i \in RecorderIds |-> "none"]
    /\ event_queue = [i \in RecorderIds |-> <<>>]
    /\ trace = [i \in RecorderIds |-> <<>>]
    /\ events_list = <<>>
    /\ bulk_count = 0
    /\ client_threads = FALSE
    /\ go_calls = 0
    /\ published = [a \in Antennas |-> <<>>]
    /\ sent = [a \in Antennas |-> <<>>]
    /\ stop_sent = {}
    /\ after_cancel = 0
    /\ do_it_called = FALSE
    /\ rec_shard = [i \in RecorderIds |-> <<0, 0>>]
    /\ enqueue_failed = FALSE
    /\ cancel_in_loop = FALSE

\* no slot-role query is in progress
QIdle ==
    /\ reciprocal_calib_ = FALSE
    /\ frames_ = <<>>
    /\ q_fn = "none"
    /\ q_frame = 0
    /\ q_slot = 0
    /\ q_ret = 0
    /\ q_fault = FALSE

\* the PHY part of the constructor is not being run
PhyIdle ==
    /\ symbol_per_subframe_ = 1
    /\ fft_size_ = 0
    /\ cp_size_ = 0
    /\ prefix_ = 0
    /\ postfix_ = 0
    /\ pilot_seq_ = "lts"
    /\ ofdm_symbol_size_ = 0
    /\ subframe_size_ = 0
    /\ samps_per_symbol_ = 0
    /\ beacon_ci16_size = 0
    /\ beacon_size_ = 0
    /\ beacon_i = 0
    /\ pilot_size = 0
    /\ phy_pc = "idle"

\* the thread settings are not being computed
ThrIdle ==
    /\ num_cores = 1
    /\ bs_present_ = TRUE
    /\ client_present_ = FALSE
    /\ num_cl_sdrs_ = 0
    /\ task_thread = 1
    /\ core_alloc_ = FALSE
    /\ rx_thread_num_ = 0
    /\ task_thread_num_ = 0
    /\ ant_per_rx_thread = 0
    /\ rx_thread_buff_size_ = 0
    /\ thr_pc = "idle"

CfgIdle == QIdle /\ PhyIdle /\ ThrIdle

Init == RecInit /\ CalIdle /\ CfgIdle

\* Recorder::gc(): drop the Receiver, then delete[] every flag array and the
\* ring array.  The pointers are not reset, so a call on an object whose
\* arrays are already freed passes freed pointers to delete[]: undefined
\* behaviour that either goes unnoticed or aborts the process.
Gc(next) ==
    /\ receiver_' = (IF receiver_ = "live" THEN "dropped" ELSE receiver_)
    /\ IF rx_thread_num > 0
       THEN /\ rx_buffer_' = "freed"
            /\ ring_frees' = ring_frees + 1
            /\ pc' \in (IF rx_buffer_ = "freed" THEN {next, "crashed"} ELSE {next})
       ELSE /\ UNCHANGED <<rx_buffer_, ring_frees>>
            /\ pc' = next

\* Recorder::Recorder, lines 743-784, Receiver constructed
RecorderNew ==
    /\ pc = "new"
    /\ queue_made' = TRUE
    /\ rx_buffer_' = (IF rx_thread_num > 0 THEN "allocated" ELSE rx_buffer_)
    /\ receiver_' = "live"
    /\ pc' = "do_it"
    /\ UNCHANGED <<rx_thread_num, task_thread_num, total_antennas, core_alloc,
                   client_present, running, exit_signal, ring_frees,
                   pkg_buf_inuse, ring_pkt, message_queue_, recv_thread,
                   cursor, next_frame, thread_antennas, recorders_, rec_thread,
                   event_queue, trace, events_list, bulk_count, client_threads,
                   go_calls, published, sent, stop_sent, after_cancel,
                   do_it_called>>
    /\ UNCHANGED <<rec_shard, enqueue_failed, cancel_in_loop>>
    /\ UNCHANGED <<calVars, cfgVars>>

\* Recorder::Recorder, lines 777-783: the Receiver constructor throws, gc()
\* runs and the error is rethrown to main(); no Recorder object exists.
RecorderNewFails ==
    /\ pc = "new"
    /\ queue_made' = TRUE
    /\ receiver_' = "null"
    /\ IF rx_thread_num > 0
       THEN rx_buffer_' = "freed" /\ ring_frees' = ring_frees + 1
       ELSE UNCHANGED <<rx_buffer_, ring_frees>>
    /\ pc' = "caught"
    /\ UNCHANGED <<rx_thread_num, task_thread_num, total_antennas, core_alloc,
                   client_present, running, exit_signal,
                   pkg_buf_inuse, ring_pkt, message_queue_, recv_thread,
                   cursor, next_frame, thread_antennas, recorders_, rec_thread,
                   event_queue, trace, events_list, bulk_count, client_threads,
                   go_calls, published, sent, stop_sent, after_cancel,
                   do_it_called>>
    /\ UNCHANGED <<rec_shard, enqueue_failed, cancel_in_loop>>
    /\ UNCHANGED <<calVars, cfgVars>>

\* do_it, lines 808-813: pinning is not requested or succeeds
PinOk ==
    /\ pc = "do_it"
    /\ do_it_called' = TRUE
    /\ pc' = "start"
    /\ UNCHANGED <<rx_thread_num, task_thread_num, total_antennas, core_alloc,
                   client_present, running, exit_signal, receiver_, rx_buffer_,
                   ring_frees, pkg_buf_inuse, ring_pkt, queue_made,
                   message_queue_, recv_thread, cursor, next_frame,
                   thread_antennas, recorders_, rec_thread, event_queue, trace,
                   events_list, bulk_count, client_threads, go_calls,
                   published, sent, stop_sent, after_cancel>>
    /\ UNCHANGED <<rec_shard, enqueue_failed, cancel_in_loop>>
    /\ UNCHANGED <<calVars, cfgVars>>

\* do_it, lines 808-813: pin_to_core fails, std::runtime_error is thrown
PinFails ==
    /\ pc = "do_it"
    /\ core_alloc = TRUE
    /\ do_it_called' = TRUE
    /\ pc' = "unwind"
    /\ UNCHANGED <<rx_thread_num, task_thread_num, total_antennas, core_alloc,
                   client_present, running, exit_signal, receiver_, rx_buffer_,
                   ring_frees, pkg_buf_inuse, ring_pkt, queue_made,
                   message_queue_, recv_thread, cursor, next_frame,
                   thread_antennas, recorders_, rec_thread, event_queue, trace,
                   events_list, bulk_count, client_threads, go_calls,
                   published, sent, stop_sent, after_cancel>>
    /\ UNCHANGED <<rec_shard, enqueue_failed, cancel_in_loop>>
    /\ UNCHANGED <<calVars, cfgVars>>

\* do_it, lines 815-848: client threads, recorder workers, receive workers
StartWorkers ==
    /\ pc = "start"
    /\ rx_thread_num > 0
    /\ client_threads' = client_present
    /\ thread_antennas' = ThreadAntennas(total_antennas, task_thread_num)
    /\ recorders_' = RecorderIds
    /\ rec_shard' = [i \in RecorderIds |->
                        <<i * thread_antennas', thread_antennas'>>]
    /\ rec_thread' = [i \in RecorderIds |-> "running"]
    /\ recv_thread' = [w \in Workers |-> "running"]
    /\ pc' = "loop"
    /\ UNCHANGED <<rx_thread_num, task_thread_num, total_antennas, core_alloc,
                   client_present, running, exit_signal, receiver_, rx_buffer_,
                   ring_frees, pkg_buf_inuse, ring_pkt, queue_made,
                   message_queue_, cursor, next_frame, event_queue, trace,
                   events_list, bulk_count, go_calls, published, sent,
                   stop_sent, after_cancel, do_it_called>>
    /\ UNCHANGED <<enqueue_failed, cancel_in_loop>>
    /\ UNCHANGED <<calVars, cfgVars>>

\* a do_it without the else branch: go() is never called
Go_NotCalled ==
    /\ pc = "start"
    /\ rx_thread_num = 0
    /\ client_threads' = client_present
    /\ pc' = "loop"
    /\ UNCHANGED <<rx_thread_num, task_thread_num, total_antennas, core_alloc,
                   client_present, running, exit_signal, receiver_, rx_buffer_,
                   ring_frees, pkg_buf_inuse, ring_pkt, queue_made,
                   message_queue_, recv_thread, cursor, next_frame,
                   thread_antennas, recorders_, rec_thread, event_queue, trace,
                   events_list, bulk_count, go_calls, published, sent,
                   stop_sent, after_cancel, do_it_called>>
    /\ UNCHANGED <<rec_shard, enqueue_failed, cancel_in_loop>>
    /\ UNCHANGED <<calVars, cfgVars>>

\* do_it, lines 815-817 and 849-850: only beamsweeping
Go ==
    /\ pc = "start"
    /\ rx_thread_num = 0
    /\ client_threads' = client_present
    /\ go_calls' = go_calls + 1
    /\ pc' = "loop"
    /\ UNCHANGED <<rx_thread_num, task_thread_num, total_antennas, core_alloc,
                   client_present, running, exit_signal, receiver_, rx_buffer_,
                   ring_frees, pkg_buf_inuse, ring_pkt, queue_made,
                   message_queue_, recv_thread, cursor, next_frame,
                   thread_antennas, recorders_, rec_thread, event_queue, trace,
                   events_list, bulk_count, published, sent, stop_sent,
                   after_cancel, do_it_called>>
    /\ UNCHANGED <<rec_shard, enqueue_failed, cancel_in_loop>>
    /\ UNCHANGED <<calVars, cfgVars>>

\* do_it, lines 858-859: the loop condition
LoopTest ==
    /\ pc = "loop"
    /\ pc' = (IF running = TRUE /\ exit_signal = FALSE THEN "dequeue" ELSE "shutdown")
    /\ UNCHANGED <<rx_thread_num, task_thread_num, total_antennas, core_alloc,
                   client_present, running, exit_signal, receiver_, rx_buffer_,
                   ring_frees, pkg_buf_inuse, ring_pkt, queue_made,
                   message_queue_, recv_thread, cursor, next_frame,
                   thread_antennas, recorders_, rec_thread, event_queue, trace,
                   events_list, bulk_count, client_threads, go_calls,
                   published, sent, stop_sent, after_cancel, do_it_called>>
    /\ UNCHANGED <<rec_shard, enqueue_failed, cancel_in_loop>>
    /\ UNCHANGED <<calVars, cfgVars>>

RECURSIVE SumTake(_, _)
SumTake(k, ws) ==
    IF ws = {} THEN 0
    ELSE LET w == CHOOSE x \in ws : TRUE
         IN k[w] + SumTake(k, ws \ {w})

\* what try_dequeue_bulk may take: k[w] events from the head of producer w's
\* sub-queue, at most KDequeueBulkSize in all
Takes ==
    {k \in [Workers -> 0..KDequeueBulkSize] :
        /\ \A w \in Workers : k[w] <= Len(message_queue_[w])
        /\ SumTake(k, Workers) <= KDequeueBulkSize}

\* the bulk: the producers are visited in rotation from producer p, the
\* events of one producer stay in their order
RECURSIVE Chunks(_, _, _)
Chunks(k, p, n) ==
    IF n = 0 THEN <<>>
    ELSE SubSeq(message_queue_[p], 1, k[p])
            \o Chunks(k, (p + 1) % rx_thread_num, n - 1)

\* do_it, lines 861-862: try_dequeue_bulk(ctok, events_list, KDequeueBulkSize)
DequeueBulk ==
    /\ pc = "dequeue"
    /\ \E k \in Takes :
        \E p \in (IF rx_thread_num = 0 THEN {0} ELSE Workers) :
            /\ events_list' = Chunks(k, p, rx_thread_num)
            /\ message_queue_' =
                 [w \in Workers |->
                    SubSeq(message_queue_[w], k[w] + 1, Len(message_queue_[w]))]
            /\ pc' = (IF SumTake(k, Workers) = 0 THEN "loop" ELSE "dispatch")
    /\ bulk_count' = 0
    /\ UNCHANGED <<rx_thread_num, task_thread_num, total_antennas, core_alloc,
                   client_present, running, exit_signal, receiver_, rx_buffer_,
                   ring_frees, pkg_buf_inuse, ring_pkt, queue_made,
                   recv_thread, cursor, next_frame,
                   thread_antennas, recorders_, rec_thread, event_queue, trace,
                   client_threads, go_calls,
                   published, sent, stop_sent, after_cancel, do_it_called>>
    /\ UNCHANGED <<rec_shard, enqueue_failed, cancel_in_loop>>
    /\ UNCHANGED <<calVars, cfgVars>>

\* line 869: Event_data& event = events_list[bulk_count]
BulkEvent_Reversed(list, count) == list[Len(list) - count]
BulkEvent(list, count) == list[count + 1]

\* the event the for loop of lines 868-893 handles next
CurEvent == BulkEvent(events_list, bulk_count)
CurIndex == ThreadIndex(CurEvent.ant_id, thread_antennas)

\* RecorderThread::DispatchWork: try_enqueue on the recorder's input queue
DispatchWorkOk(i) == Len(event_queue[i]) < RecQueueCap

\* the position after one handled event: the for loop goes on or the while
\* condition is tested again
AfterEvent == IF bulk_count + 1 < Len(events_list) THEN "dispatch" ELSE "loop"

\* do_it, lines 868-893: one iteration of the for loop; the Record event is
\* enqueued on recorders_.at(thread_index).  at() throws std::out_of_range
\* for an index that is not in the vector.
DispatchEvent ==
    /\ pc = "dispatch"
    /\ bulk_count < Len(events_list)
    /\ IF CurEvent.event_type # "kEventRxSymbol"
       THEN /\ pc' = AfterEvent
            /\ bulk_count' = bulk_count + 1
            /\ UNCHANGED <<event_queue, sent, after_cancel>>
       ELSE IF CurIndex \notin recorders_
       THEN /\ pc' = "unwind"
            /\ UNCHANGED <<event_queue, sent, after_cancel, bulk_count>>
       ELSE /\ DispatchWorkOk(CurIndex)
            /\ event_queue' =
                 [event_queue EXCEPT ![CurIndex] =
                    Append(@, [event_type |-> "kTaskRecord", data |-> CurEvent.data])]
            /\ sent' =
                 [sent EXCEPT ![CurEvent.ant_id] =
                    Append(@, <<CurIndex,
                                ring_pkt[OffsetWorker(CurEvent.data)]
                                        [OffsetSlot(CurEvent.data)].frame>>)]
            /\ after_cancel' =
                 (IF running = FALSE \/ exit_signal = TRUE
                  THEN after_cancel + 1 ELSE after_cancel)
            /\ bulk_count' = bulk_count + 1
            /\ pc' = AfterEvent
    /\ UNCHANGED <<rx_thread_num, task_thread_num, total_antennas, core_alloc,
                   client_present, running, exit_signal, receiver_, rx_buffer_,
                   ring_frees, pkg_buf_inuse, ring_pkt, queue_made,
                   message_queue_, recv_thread, cursor, next_frame,
                   thread_antennas, recorders_, rec_thread, trace,
                   events_list, client_threads, go_calls,
                   published, stop_sent, do_it_called>>
    /\ UNCHANGED <<rec_shard, enqueue_failed, cancel_in_loop>>
    /\ UNCHANGED <<calVars, cfgVars>>

\* a dispatcher that logs the failed enqueue and goes on with the next event
DispatchFails_Continue ==
    /\ pc = "dispatch"
    /\ bulk_count < Len(events_list)
    /\ CurEvent.event_type = "kEventRxSymbol"
    /\ CurIndex \in recorders_
    /\ ~DispatchWorkOk(CurIndex)
    /\ enqueue_failed' = TRUE
    /\ bulk_count' = bulk_count + 1
    /\ pc' = AfterEvent
    /\ UNCHANGED <<rx_thread_num, task_thread_num, total_antennas, core_alloc,
                   client_present, running, exit_signal, receiver_, rx_buffer_,
                   ring_frees, pkg_buf_inuse, ring_pkt, queue_made,
                   message_queue_, recv_thread, cursor, next_frame,
                   thread_antennas, recorders_, rec_thread, event_queue, trace,
                   events_list, client_threads, go_calls,
                   published, sent, stop_sent, after_cancel, do_it_called>>
    /\ UNCHANGED <<rec_shard, cancel_in_loop>>
    /\ UNCHANGED <<calVars, cfgVars>>

\* do_it, lines 886-891: DispatchWork returns false, "Record task enqueue
\* failed" is thrown out of do_it
DispatchFails ==
    /\ pc = "dispatch"
    /\ bulk_count < Len(events_list)
    /\ CurEvent.event_type = "kEventRxSymbol"
    /\ CurIndex \in recorders_
    /\ ~DispatchWorkOk(CurIndex)
    /\ enqueue_failed' = TRUE
    /\ pc' = "unwind"
    /\ UNCHANGED <<rx_thread_num, task_thread_num, total_antennas, core_alloc,
                   client_present, running, exit_signal, receiver_, rx_buffer_,
                   ring_frees, pkg_buf_inuse, ring_pkt, queue_made,
                   message_queue_, recv_thread, cursor, next_frame,
                   thread_antennas, recorders_, rec_thread, event_queue, trace,
                   events_list, bulk_count, client_threads, go_calls,
                   published, sent, stop_sent, after_cancel, do_it_called>>
    /\ UNCHANGED <<rec_shard, cancel_in_loop>>
    /\ UNCHANGED <<calVars, cfgVars>>

\* do_it, line 895: cfg_->running(false)
ClearRunning ==
    /\ pc = "shutdown"
    /\ running' = FALSE
    /\ pc' = "join_recv"
    /\ UNCHANGED <<rx_thread_num, task_thread_num, total_antennas, core_alloc,
                   client_present, exit_signal, receiver_, rx_buffer_,
                   ring_frees, pkg_buf_inuse, ring_pkt, queue_made,
                   message_queue_, recv_thread, cursor, next_frame,
                   thread_antennas, recorders_, rec_thread, event_queue, trace,
                   events_list, bulk_count, client_threads, go_calls,
                   published, sent, stop_sent, after_cancel, do_it_called>>
    /\ UNCHANGED <<rec_shard, enqueue_failed, cancel_in_loop>>
    /\ UNCHANGED <<calVars, cfgVars>>

\* do_it, line 896: completeRecvThreads joins every receive worker
CompleteRecvThreads ==
    /\ pc = "join_recv"
    /\ \A w \in Workers : recv_thread[w] = "exited"
    /\ recv_thread' = [w \in Workers |-> "joined"]
    /\ pc' = "reset"
    /\ UNCHANGED <<rx_thread_num, task_thread_num, total_antennas, core_alloc,
                   client_present, running, exit_signal, receiver_, rx_buffer_,
                   ring_frees, pkg_buf_inuse, ring_pkt, queue_made,
                   message_queue_, cursor, next_frame,
                   thread_antennas, recorders_, rec_thread, event_queue, trace,
                   events_list, bulk_count, client_threads, go_calls,
                   published, sent, stop_sent, after_cancel, do_it_called>>
    /\ UNCHANGED <<rec_shard, enqueue_failed, cancel_in_loop>>
    /\ UNCHANGED <<calVars, cfgVars>>

\* do_it, line 897: receiver_.reset()
ResetReceiver ==
    /\ pc = "reset"
    /\ receiver_' = "dropped"
    /\ pc' = "stop"
    /\ UNCHANGED <<rx_thread_num, task_thread_num, total_antennas, core_alloc,
                   client_present, running, exit_signal, rx_buffer_,
                   ring_frees, pkg_buf_inuse, ring_pkt, queue_made,
                   message_queue_, recv_thread, cursor, next_frame,
                   thread_antennas, recorders_, rec_thread, event_queue, trace,
                   events_list, bulk_count, client_threads, go_calls,
                   published, sent, stop_sent, after_cancel, do_it_called>>
    /\ UNCHANGED <<rec_shard, enqueue_failed, cancel_in_loop>>
    /\ UNCHANGED <<calVars, cfgVars>>

\* do_it, lines 901-903: recorder->Stop() for every recorder
StopRecorders ==
    /\ pc = "stop"
    /\ event_queue' =
         [i \in RecorderIds |->
            IF i \in recorders_
            THEN Append(event_queue[i], [event_type |-> "kThreadTermination", data |-> 0])
            ELSE event_queue[i]]
    /\ stop_sent' = stop_sent \cup recorders_
    /\ pc' = "delete"
    /\ UNCHANGED <<rx_thread_num, task_thread_num, total_antennas, core_alloc,
                   client_present, running, exit_signal, receiver_, rx_buffer_,
                   ring_frees, pkg_buf_inuse, ring_pkt, queue_made,
                   message_queue_, recv_thread, cursor, next_frame,
                   thread_antennas, recorders_, rec_thread, trace,
                   events_list, bulk_count, client_threads, go_calls,
                   published, sent, after_cancel, do_it_called>>
    /\ UNCHANGED <<rec_shard, enqueue_failed, cancel_in_loop>>
    /\ UNCHANGED <<calVars, cfgVars>>

\* do_it, lines 904-907: delete every recorder (its thread is joined), clear
\* the vector, return
DeleteRecorders ==
    /\ pc = "delete"
    /\ \A i \in recorders_ : rec_thread[i] = "exited"
    /\ rec_thread' = [i \in RecorderIds |->
                        IF i \in recorders_ THEN "joined" ELSE rec_thread[i]]
    /\ recorders_' = {}
    /\ pc' = "returned"
    /\ UNCHANGED <<rx_thread_num, task_thread_num, total_antennas, core_alloc,
                   client_present, running, exit_signal, receiver_, rx_buffer_,
                   ring_frees, pkg_buf_inuse, ring_pkt, queue_made,
                   message_queue_, recv_thread, cursor, next_frame,
                   thread_antennas, event_queue, trace,
                   events_list, bulk_count, client_threads, go_calls,
                   published, sent, stop_sent, after_cancel, do_it_called>>
    /\ UNCHANGED <<rec_shard, enqueue_failed, cancel_in_loop>>
    /\ UNCHANGED <<calVars, cfgVars>>

\* main(), lines 38-48: dr goes out of scope, after do_it returned or while
\* an exception thrown by do_it unwinds the stack; ~Recorder runs gc()
Destructor ==
    /\ pc \in {"returned", "unwind"}
    /\ Gc(IF pc = "returned" THEN "main_ok" ELSE "caught")
    /\ UNCHANGED <<rx_thread_num, task_thread_num, total_antennas, core_alloc,
                   client_present, running, exit_signal,
                   pkg_buf_inuse, ring_pkt, queue_made,
                   message_queue_, recv_thread, cursor, next_frame,
                   thread_antennas, recorders_, rec_thread, event_queue, trace,
                   events_list, bulk_count, client_threads, go_calls,
                   published, sent, stop_sent, after_cancel, do_it_called>>
    /\ UNCHANGED <<rec_shard, enqueue_failed, cancel_in_loop>>
    /\ UNCHANGED <<calVars, cfgVars>>

\* main(), lines 40-50: return ret; the process ends and with it every thread
MainReturn ==
    /\ pc \in {"main_ok", "caught"}
    /\ pc' = (IF pc = "main_ok" THEN "exit_ok" ELSE "exit_fail")
    /\ UNCHANGED <<rx_thread_num, task_thread_num, total_antennas, core_alloc,
                   client_present, running, exit_signal, receiver_, rx_buffer_,
                   ring_frees, pkg_buf_inuse, ring_pkt, queue_made,
                   message_queue_, recv_thread, cursor, next_frame,
                   thread_antennas, recorders_, rec_thread, event_queue, trace,
                   events_list, bulk_count, client_threads, go_calls,
                   published, sent, stop_sent, after_cancel, do_it_called>>
    /\ UNCHANGED <<rec_shard, enqueue_failed, cancel_in_loop>>
    /\ UNCHANGED <<calVars, cfgVars>>

\* A worker that touches the ring after the arrays were freed reads or writes
\* freed memory: undefined behaviour, the access goes through or the process
\* faults.
TouchRing == pc' \in (IF rx_buffer_ = "freed" THEN {pc, "crashed"} ELSE {pc})

\* Receive worker w captures one symbol of antenna a: it claims the next ring
\* slot (it waits while the slot is in use), writes the packet and publishes
\* RxSymbol{a, offset} on the dispatch queue.
RecvPublish(w, a) ==
    /\ Alive
    /\ recv_thread[w] = "running"
    /\ running = TRUE
    /\ next_frame[w] < MaxFrames
    /\ a \in Owned(w)
    /\ pkg_buf_inuse[w][cursor[w]] = 0
    /\ TotalLen(message_queue_, Workers) < MsgQueueCap
    /\ pkg_buf_inuse' = [pkg_buf_inuse EXCEPT ![w][cursor[w]] = 1]
    /\ ring_pkt' = [ring_pkt EXCEPT ![w][cursor[w]] =
                        [ant |-> a, frame |-> next_frame[w] + 1]]
    /\ message_queue_' =
         [message_queue_ EXCEPT ![w] =
            Append(@, [event_type |-> "kEventRxSymbol", ant_id |-> a,
                       data |-> Offset(w, cursor[w])])]
    /\ published' = [published EXCEPT ![a] = Append(@, next_frame[w] + 1)]
    /\ cursor' = [cursor EXCEPT ![w] = (@ + 1) % RingSlots]
    /\ next_frame' = [next_frame EXCEPT ![w] = @ + 1]
    /\ TouchRing
    /\ UNCHANGED <<rx_thread_num, task_thread_num, total_antennas, core_alloc,
                   client_present, running, exit_signal, receiver_, rx_buffer_,
                   ring_frees, queue_made, recv_thread,
                   thread_antennas, recorders_, rec_thread, event_queue, trace,
                   events_list, bulk_count, client_threads, go_calls,
                   sent, stop_sent, after_cancel, do_it_called>>
    /\ UNCHANGED <<rec_shard, enqueue_failed, cancel_in_loop>>
    /\ UNCHANGED <<calVars, cfgVars>>

\* The dispatch queue is full: the capture is dropped with a warning and the
\* ring slot is released at once.
RecvDrop(w, a) ==
    /\ Alive
    /\ recv_thread[w] = "running"
    /\ running = TRUE
    /\ next_frame[w] < MaxFrames
    /\ a \in Owned(w)
    /\ pkg_buf_inuse[w][cursor[w]] = 0
    /\ TotalLen(message_queue_, Workers) >= MsgQueueCap
    /\ ring_pkt' = [ring_pkt EXCEPT ![w][cursor[w]] =
                        [ant |-> a, frame |-> next_frame[w] + 1]]
    /\ cursor' = [cursor EXCEPT ![w] = (@ + 1) % RingSlots]
    /\ next_frame' = [next_frame EXCEPT ![w] = @ + 1]
    /\ TouchRing
    /\ UNCHANGED <<rx_thread_num, task_thread_num, total_antennas, core_alloc,
                   client_present, running, exit_signal, receiver_, rx_buffer_,
                   ring_frees, pkg_buf_inuse, queue_made, message_queue_,
                   recv_thread, thread_antennas, recorders_, rec_thread,
                   event_queue, trace, events_list, bulk_count, client_threads,
                   go_calls, published, sent, stop_sent, after_cancel,
                   do_it_called>>
    /\ UNCHANGED <<rec_shard, enqueue_failed, cancel_in_loop>>
    /\ UNCHANGED <<calVars, cfgVars>>

\* Receive worker w observes the cleared running flag between two captures
\* and exits.
RecvExit(w) ==
    /\ Alive
    /\ recv_thread[w] = "running"
    /\ running = FALSE
    /\ recv_thread' = [recv_thread EXCEPT ![w] = "exited"]
    /\ UNCHANGED <<rx_thread_num, task_thread_num, total_antennas, core_alloc,
                   client_present, running, exit_signal, pc, receiver_,
                   rx_buffer_, ring_frees, pkg_buf_inuse, ring_pkt, queue_made,
                   message_queue_, cursor, next_frame,
                   thread_antennas, recorders_, rec_thread, event_queue, trace,
                   events_list, bulk_count, client_threads, go_calls,
                   published, sent, stop_sent, after_cancel, do_it_called>>
    /\ UNCHANGED <<rec_shard, enqueue_failed, cancel_in_loop>>
    /\ UNCHANGED <<calVars, cfgVars>>

\* Recorder worker i handles a kTaskRecord event: it decodes the packet at
\* the ring offset, appends it to the trace and releases the ring slot.
RecordTask(i) ==
    /\ Alive
    /\ rec_thread[i] = "running"
    /\ event_queue[i] # <<>>
    /\ Head(event_queue[i]).event_type = "kTaskRecord"
    /\ LET off == Head(event_queue[i]).data
           w == OffsetWorker(off)
           sl == OffsetSlot(off)
       IN /\ trace' = [trace EXCEPT ![i] =
                          Append(@, <<ring_pkt[w][sl].ant, ring_pkt[w][sl].frame>>)]
          /\ pkg_buf_inuse' = [pkg_buf_inuse EXCEPT ![w][sl] = 0]
    /\ event_queue' = [event_queue EXCEPT ![i] = Tail(@)]
    /\ TouchRing
    /\ UNCHANGED <<rx_thread_num, task_thread_num, total_antennas, core_alloc,
                   client_present, running, exit_signal, receiver_, rx_buffer_,
                   ring_frees, ring_pkt, queue_made, message_queue_,
                   recv_thread, cursor, next_frame,
                   thread_antennas, recorders_, rec_thread,
                   events_list, bulk_count, client_threads, go_calls,
                   published, sent, stop_sent, after_cancel, do_it_called>>
    /\ UNCHANGED <<rec_shard, enqueue_failed, cancel_in_loop>>
    /\ UNCHANGED <<calVars, cfgVars>>

\* Recorder worker i handles kStop: it flushes and closes the trace and exits.
RecordStop(i) ==
    /\ Alive
    /\ rec_thread[i] = "running"
    /\ event_queue[i] # <<>>
    /\ Head(event_queue[i]).event_type = "kThreadTermination"
    /\ event_queue' = [event_queue EXCEPT ![i] = Tail(@)]
    /\ rec_thread' = [rec_thread EXCEPT ![i] = "exited"]
    /\ UNCHANGED <<rx_thread_num, task_thread_num, total_antennas, core_alloc,
                   client_present, running, exit_signal, pc, receiver_,
                   rx_buffer_, ring_frees, pkg_buf_inuse, ring_pkt, queue_made,
                   message_queue_, recv_thread, cursor, next_frame,
                   thread_antennas, recorders_, trace,
                   events_list, bulk_count, client_threads, go_calls,
                   published, sent, stop_sent, after_cancel, do_it_called>>
    /\ UNCHANGED <<rec_shard, enqueue_failed, cancel_in_loop>>
    /\ UNCHANGED <<calVars, cfgVars>>

\* The signal handler: SIGINT/SIGTERM sets the exit signal and clears the
\* process-wide running flag.
Signal ==
    /\ Alive
    /\ exit_signal = FALSE
    /\ exit_signal' = TRUE
    /\ running' = FALSE
    /\ cancel_in_loop' = (cancel_in_loop \/ pc \in {"loop", "dequeue", "dispatch"})
    /\ UNCHANGED <<rx_thread_num, task_thread_num, total_antennas, core_alloc,
                   client_present, pc, receiver_, rx_buffer_,
                   ring_frees, pkg_buf_inuse, ring_pkt, queue_made,
                   message_queue_, recv_thread, cursor, next_frame,
                   thread_antennas, recorders_, rec_thread, event_queue, trace,
                   events_list, bulk_count, client_threads, go_calls,
                   published, sent, stop_sent, after_cancel, do_it_called>>
    /\ UNCHANGED <<rec_shard, enqueue_failed>>
    /\ UNCHANGED <<calVars, cfgVars>>

RecvStep == \E w \in Workers : \E a \in Antennas : RecvPublish(w, a)
RecvDropStep == \E w \in Workers : \E a \in Antennas : RecvDrop(w, a)
RecvExitStep == \E w \in Workers : RecvExit(w)
RecordTaskStep == \E i \in RecorderIds : RecordTask(i)
RecordStopStep == \E i \in RecorderIds : RecordStop(i)

Next ==
    \/ RecorderNew
    \/ RecorderNewFails
    \/ PinOk
    \/ PinFails
    \/ StartWorkers
    \/ Go
    \/ LoopTest
    \/ DequeueBulk
    \/ DispatchEvent
    \/ DispatchFails
    \/ ClearRunning
    \/ CompleteRecvThreads
    \/ ResetReceiver
    \/ StopRecorders
    \/ DeleteRecorders
    \/ Destructor
    \/ MainReturn
    \/ RecvStep
    \/ RecvDropStep
    \/ RecvExitStep
    \/ RecordTaskStep
    \/ RecordStopStep
    \/ Signal

Spec == Init /\ [][Next]_vars

\* Recorder::gc() called on the live Recorder once do_it has returned; the
\* destructor then runs gc() a second time.
GcCall ==
    /\ pc = "returned"
    /\ ring_frees = 0
    /\ Gc("returned")
    /\ UNCHANGED <<rx_thread_num, task_thread_num, total_antennas, core_alloc,
                   client_present, running, exit_signal,
                   pkg_buf_inuse, ring_pkt, queue_made,
                   message_queue_, recv_thread, cursor, next_frame,
                   thread_antennas, recorders_, rec_thread, event_queue, trace,
                   events_list, bulk_count, client_threads, go_calls,
                   published, sent, stop_sent, after_cancel, do_it_called>>
    /\ UNCHANGED <<rec_shard, enqueue_failed, cancel_in_loop>>
    /\ UNCHANGED <<calVars, cfgVars>>

GcNext == Next \/ GcCall

GcSpec == Init /\ [][GcNext]_vars

\* the configuration phase alone
CalStart == CalInit /\ RecIdle /\ CfgIdle

CalSpec == CalStart /\ [][CalNext]_vars

(***************************************************************************)
(* Lifecycle and dispatch: claims C1 to C8.                                *)
(***************************************************************************)

\* the workers that were started
StartedRecv == {w \in Workers : recv_thread[w] # "none"}
StartedRec == {i \in RecorderIds : rec_thread[i] # "none"}

\* do_it or main() has ended
Ended == pc \in {"exit_ok", "exit_fail"}

\* C1: once do_it was entered, ring memory is released only after running
\* was cleared, every receive worker was joined, the Receiver was dropped and
\* every recorder was sent Stop and joined; it is never released while a
\* receive worker or a recorder worker is still running.
C1_ReleaseAfterShutdown ==
    (do_it_called /\ rx_buffer_ = "freed") =>
        /\ running = FALSE
        /\ \A w \in StartedRecv : recv_thread[w] = "joined"
        /\ receiver_ = "dropped"
        /\ \A i \in StartedRec : i \in stop_sent /\ rec_thread[i] = "joined"

\* ceil(a / b)
CeilDiv(a, b) == (a + b - 1) \div b

\* the recorder that owns antenna a: floor(a / ceil(total_antennas / M))
RecorderOf(a) ==
    IF task_thread_num = 0 THEN -1
    ELSE a \div CeilDiv(total_antennas, task_thread_num)

\* C2: every RxSymbol event published to the dispatch queue is forwarded to
\* its recorder before that recorder is sent Stop, and when do_it has
\* returned no published event is undispatched and no ring slot is in use.
C2_DrainBeforeStop ==
    /\ \A a \in Antennas :
          RecorderOf(a) \in stop_sent => Len(sent[a]) = Len(published[a])
    /\ pc = "returned" =>
          /\ \A a \in Antennas : Len(sent[a]) = Len(published[a])
          /\ \A w \in Workers : \A sl \in Slots : pkg_buf_inuse[w][sl] = 0

\* C3: once cancellation arrives while the dispatcher is in its loop, at
\* most KDequeueBulkSize further events are dispatched and, the receive
\* workers having exited, every started recorder has been sent Stop by the
\* time the program ends.
C3_CancelThenStop ==
    /\ after_cancel <= KDequeueBulkSize
    /\ (/\ cancel_in_loop
        /\ Ended
        /\ \A w \in StartedRecv : recv_thread[w] \in {"exited", "joined"})
       => StartedRec \subseteq stop_sent

\* do_it has ended with an exception
Fatal == pc \in {"unwind", "caught", "exit_fail", "crashed"}

\* C4: from the step at which DispatchWork fails, no further event is
\* dispatched, the remaining events of the bulk included, and do_it has ended
\* with the fatal error.
C4_FailedEnqueueIsFatal ==
    [][enqueue_failed' => (sent' = sent /\ bulk_count' = bulk_count /\ Fatal')]_vars

\* the enqueue failed while events of the bulk were still to be handled
C4_Witness ==
    /\ enqueue_failed
    /\ bulk_count + 1 < Len(events_list)

RECURSIVE Frames(_)
Frames(log) == IF log = <<>> THEN <<>> ELSE <<Head(log)[2]>> \o Frames(Tail(log))

IsPrefix(p, q) == Len(p) <= Len(q) /\ p = SubSeq(q, 1, Len(p))

\* what recorder i appended to the trace for antenna a
TraceOf(i, a) == SelectSeq(trace[i], LAMBDA e : e[1] = a)

PastStart == pc \in {"loop", "dequeue", "dispatch", "shutdown", "join_recv",
                     "reset", "stop", "delete", "returned", "main_ok", "exit_ok"}

C8_GcIdempotent == rx_thread_num > 0 => ring_frees <= 1

(***************************************************************************)
(* Reciprocal schedule generator: claims C9 and C10.                       *)
(***************************************************************************)

\* the cells whose frames have all been generated
CellsGenerated == IF cal_pc = "done" THEN 1..Len(n_bs_sdrs_) ELSE {}

\* C9: after generation completes, every one of the N frame strings of every
\* cell has length exactly c*N - (c-1), for every reference index in [0, N)
\* and every channel count c in {1, 2}.
C9_FrameLength ==
    \A c \in CellsGenerated :
        \A i \in 1..n_bs_sdrs_[c] :
            Len(calib_frames_[c][i]) = num_channels * n_bs_sdrs_[c] - (num_channels - 1)

\* the frame generated for the reference SDR of cell c
RefFrame(c) == calib_frames_[c][cal_ref_sdr_id_ + 1]

\* the scenario N = 3, r = 1, c = 2 in a single cell
IsScenarioS2 ==
    /\ n_bs_sdrs_ = <<3>>
    /\ cal_ref_sdr_id_ = 1
    /\ num_channels = 2

\* C10 as stated: the reference frame holds exactly one 'P', at offset c*r,
\* exactly N-1 'R's and 'G' elsewhere; for N=3, r=1, c=2 it is "RPGRR".
C10_RefFrameAsStated ==
    \A c \in CellsGenerated :
        /\ CountChar(RefFrame(c), "P") = 1
        /\ RefFrame(c)[num_channels * cal_ref_sdr_id_ + 1] = "P"
        /\ CountChar(RefFrame(c), "R") = n_bs_sdrs_[c] - 1
        /\ \A k \in 1..Len(RefFrame(c)) : RefFrame(c)[k] \in {"P", "R", "G"}
        /\ IsScenarioS2 => RefFrame(c) = <<"R", "P", "G", "R", "R">>

\* C10 amended: the reference frame holds exactly one 'P', at offset c*r,
\* exactly c*(N-1) 'R's (one per channel of every other SDR) and 'G'
\* elsewhere; for N=3, r=1, c=2 it is "RRPGRR".
C10_RefFrame ==
    \A c \in CellsGenerated :
        /\ CountChar(RefFrame(c), "P") = 1
        /\ RefFrame(c)[num_channels * cal_ref_sdr_id_ + 1] = "P"
        /\ CountChar(RefFrame(c), "R") = num_channels * (n_bs_sdrs_[c] - 1)
        /\ \A k \in 1..Len(RefFrame(c)) : RefFrame(c)[k] \in {"P", "R", "G"}
        /\ IsScenarioS2 => RefFrame(c) = <<"R", "R", "P", "G", "R", "R">>

\* generation has completed for the scenario N=3, r=1, c=2
C10_Witness == cal_pc = "done" /\ IsScenarioS2

\* the frame generated for SDR i (zero based) of cell c
FrameOf(c, i) == calib_frames_[c][i + 1]

\* C11: the frame of every SDR i other than the reference has 'P' at exactly
\* the c offsets c*i .. c*i+c-1, exactly one 'R', at offset c*r, and 'G' at
\* every other offset.
C11_NonRefFrame ==
    \A c \in CellsGenerated :
        \A i \in 0..(n_bs_sdrs_[c] - 1) :
            i # cal_ref_sdr_id_ =>
                \A k \in 0..(Len(FrameOf(c, i)) - 1) :
                    FrameOf(c, i)[k + 1] =
                        IF k \in (num_channels * i)..(num_channels * i + num_channels - 1)
                        THEN "P"
                        ELSE IF k = num_channels * cal_ref_sdr_id_ THEN "R"
                        ELSE "G"

\* generation has completed with two channels, three SDRs in a cell and a
\* reference that is not the last SDR
C11_Witness ==
    /\ cal_pc = "done"
    /\ num_channels = 2
    /\ \E c \in 1..Len(n_bs_sdrs_) :
          n_bs_sdrs_[c] >= 3 /\ cal_ref_sdr_id_ < n_bs_sdrs_[c] - 1

\* C18: in reciprocal mode symbols_per_frame equals the length of the
\* generated frame strings, for every SDR count and channel count.
C18_SymbolsPerFrame ==
    cal_pc = "done" =>
        \A i \in 1..n_bs_sdrs_[1] :
            symbols_per_frame_ = Len(calib_frames_[1][i])

\* the cells whose frame list has been indexed with the reference index
CellsIndexed ==
    {c \in 1..Len(n_bs_sdrs_) :
        \/ c <= cal_c
        \/ c = cal_c + 1 /\ cal_pc \in {"sdr", "fault", "corrupt"}}

\* C19: the reference index used to index a cell's frame list is below the
\* number of SDRs of that cell, the default index (total SDRs - 1) with two
\* or more cells included.
C19_RefIndexValid ==
    \A c \in CellsIndexed : cal_ref_sdr_id_ < n_bs_sdrs_[c]

(***************************************************************************)
(* Slot-role queries of Config: getClientId, getNoiseSFIndex,              *)
(* getUlSFIndex, getDlSFIndex, isPilot, isNoise, isData.                   *)
(***************************************************************************)

\* Bounds of the query model: cells with a frame string, and the ranges the
\* int arguments frame_id and symbol_id are drawn from.
MaxFrameCells == 3
MaxNegFrameId == 3
MaxFrameId == 4
MaxNegSlotId == 2
MaxSlotId == 9

FrameIds == (0 - MaxNegFrameId)..MaxFrameId
SlotIds == (0 - MaxNegSlotId)..MaxSlotId

\* the frame strings a cell may be configured with
FrameStrings ==
    { <<"B", "G", "P", "G", "U", "G", "D", "G", "N">>,
      <<"B", "P", "P", "U", "U", "D", "N", "N", "G">>,
      <<"P", "U", "N">>,
      <<"G", "G", "G">> }

\* 2^k modulo n
RECURSIVE Pow2Mod(_, _)
Pow2Mod(k, n) == IF k = 0 THEN 1 % n ELSE (2 * Pow2Mod(k - 1, n)) % n

\* frame_id % frames_.size(): the int frame_id is converted to size_t, so a
\* negative frame_id counts as 2^64 + frame_id.  Defined for n > 0.
FrameMod(frame_id, n) ==
    IF frame_id >= 0 THEN frame_id % n
    ELSE (Pow2Mod(64, n) + (frame_id % n)) % n

\* Utils::loadSymbols for one frame: the zero-based offsets of role sym, in
\* ascending order
RECURSIVE LoadSymbols(_, _, _)
LoadSymbols(fr, sym, from) ==
    IF from >= Len(fr) THEN <<>>
    ELSE (IF fr[from + 1] = sym THEN <<from>> ELSE <<>>)
            \o LoadSymbols(fr, sym, from + 1)

pilot_symbols_ == [c \in 1..Len(frames_) |-> LoadSymbols(frames_[c], "P", 0)]
noise_symbols_ == [c \in 1..Len(frames_) |-> LoadSymbols(frames_[c], "N", 0)]
ul_symbols_ == [c \in 1..Len(frames_) |-> LoadSymbols(frames_[c], "U", 0)]
dl_symbols_ == [c \in 1..Len(frames_) |-> LoadSymbols(frames_[c], "D", 0)]

\* it = find(list.begin(), list.end(), symbol_id);
\* it != end ? it - begin : -1.  A negative symbol_id compares as a huge
\* size_t and is never found.
FindIndex_Last(list, symbol_id) ==
    LET hits == {k \in 1..Len(list) : list[k] = symbol_id}
    IN IF hits = {} THEN -1 ELSE Len(list) - 1
FindIndex(list, symbol_id) ==
    LET hits == {k \in 1..Len(list) : list[k] = symbol_id}
    IN IF hits = {} THEN -1
       ELSE (CHOOSE k \in hits : \A j \in hits : k <= j) - 1

\* frames_[fid].at(symbol_id) == sym inside try/catch(out_of_range): at()
\* throws for symbol_id outside [0, size()), a negative one included
RoleAt(fid, symbol_id, sym) ==
    IF symbol_id >= 0 /\ symbol_id < Len(frames_[fid + 1])
    THEN frames_[fid + 1][symbol_id + 1] = sym
    ELSE FALSE

BoolInt(b) == IF b THEN 1 ELSE 0

\* the state a query starts from: reciprocal mode loads no frame strings,
\* the other mode loads one per cell (lines 154-196)
QInit ==
    /\ reciprocal_calib_ \in BOOLEAN
    /\ frames_ \in (IF reciprocal_calib_ THEN {<<>>}
                    ELSE SeqsUpTo(FrameStrings, MaxFrameCells))
    /\ q_fn = "none"
    /\ q_frame = 0
    /\ q_slot = 0
    /\ q_ret = 0
    /\ q_fault = FALSE

\* The queries are const and independent of each other: one call per
\* behaviour, from every configuration and with every argument pair.

\* frame_id % frames_.size() with frames_.size() == 0 is a division by zero:
\* undefined behaviour.  The build either traps (SIGFPE) or goes on with an
\* arbitrary index into the empty vector and returns an arbitrary result.
DivByZero(fn, frame_id, symbol_id, rets) ==
    /\ q_fn = "none"
    /\ q_fn' = fn
    /\ q_frame' = frame_id
    /\ q_slot' = symbol_id
    /\ \/ q_fault' = TRUE /\ q_ret' = 0
       \/ q_fault' = FALSE /\ q_ret' \in rets
    /\ UNCHANGED <<reciprocal_calib_, frames_>>
    /\ UNCHANGED <<calVars, recVars, phyVars, thrVars>>

Returns(fn, frame_id, symbol_id, ret) ==
    /\ q_fn = "none"
    /\ q_fn' = fn
    /\ q_frame' = frame_id
    /\ q_slot' = symbol_id
    /\ q_ret' = ret
    /\ q_fault' = FALSE
    /\ UNCHANGED <<reciprocal_calib_, frames_>>
    /\ UNCHANGED <<calVars, recVars, phyVars, thrVars>>

\* a query that looks symbol_id up in one of the per-role lists
IndexQuery(fn, lists, frame_id, symbol_id) ==
    IF Len(frames_) = 0
    THEN DivByZero(fn, frame_id, symbol_id, {-1, 0})
    ELSE Returns(fn, frame_id, symbol_id,
                 FindIndex(lists[FrameMod(frame_id, Len(frames_)) + 1], symbol_id))

\* a query that tests the role of a slot of the frame string
RoleQuery(fn, sym, frame_id, symbol_id) ==
    IF Len(frames_) = 0
    THEN DivByZero(fn, frame_id, symbol_id, {0, 1})
    ELSE Returns(fn, frame_id, symbol_id,
                 BoolInt(RoleAt(FrameMod(frame_id, Len(frames_)), symbol_id, sym)))

getClientId ==
    \E frame_id \in FrameIds, symbol_id \in SlotIds :
        IF reciprocal_calib_
        THEN Returns("getClientId", frame_id, symbol_id, symbol_id)
        ELSE IndexQuery("getClientId", pilot_symbols_, frame_id, symbol_id)

getNoiseSFIndex ==
    \E frame_id \in FrameIds, symbol_id \in SlotIds :
        IndexQuery("getNoiseSFIndex", noise_symbols_, frame_id, symbol_id)

getUlSFIndex ==
    \E frame_id \in FrameIds, symbol_id \in SlotIds :
        IndexQuery("getUlSFIndex", ul_symbols_, frame_id, symbol_id)

getDlSFIndex ==
    \E frame_id \in FrameIds, symbol_id \in SlotIds :
        IndexQuery("getDlSFIndex", dl_symbols_, frame_id, symbol_id)

isPilot ==
    \E frame_id \in FrameIds, symbol_id \in SlotIds :
        RoleQuery("isPilot", "P", frame_id, symbol_id)

isNoise ==
    \E frame_id \in FrameIds, symbol_id \in SlotIds :
        RoleQuery("isNoise", "N", frame_id, symbol_id)

isData ==
    \E frame_id \in FrameIds, symbol_id \in SlotIds :
        RoleQuery("isData", "U", frame_id, symbol_id)

QNext ==
    \/ getClientId
    \/ getNoiseSFIndex
    \/ getUlSFIndex
    \/ getDlSFIndex
    \/ isPilot
    \/ isNoise
    \/ isData

QStart == QInit /\ PhyIdle /\ ThrIdle /\ RecIdle /\ CalIdle

QuerySpec == QStart /\ [][QNext]_vars

(***************************************************************************)
(* Slot-role queries: claims C12 and C13.                                  *)
(***************************************************************************)

BoolQueries == {"isPilot", "isNoise", "isData"}
IndexQueries == {"getClientId", "getNoiseSFIndex", "getUlSFIndex", "getDlSFIndex"}

\* the frame string the call was about, for a frame_id that is not negative
QueriedFrame == frames_[(q_frame % Len(frames_)) + 1]

\* the slot of the call lies outside the frame string
SlotOutOfRange ==
    \/ q_slot < 0
    \/ frames_ # <<>> /\ q_frame >= 0 /\ q_slot >= Len(QueriedFrame)

\* C12: in every mode and for every frame_id and slot_id, a slot-role query
\* returns: the predicates a boolean, false for a slot out of range, the
\* index queries an ordinal or -1; no fault reaches the caller.
C12_QueriesNeverFail ==
    q_fn # "none" =>
        /\ ~q_fault
        /\ q_fn \in BoolQueries =>
              /\ q_ret \in {0, 1}
              /\ SlotOutOfRange => q_ret = 0
        /\ q_fn \in IndexQueries => q_ret >= -1

\* the role named by each query
RoleOf(fn) ==
    CASE fn \in {"getClientId", "isPilot"} -> "P"
      [] fn \in {"getNoiseSFIndex", "isNoise"} -> "N"
      [] fn \in {"getUlSFIndex", "isData"} -> "U"
      [] OTHER -> "D"

\* slot s of frame string fr has role sym
HasRole(fr, s, sym) == s >= 0 /\ s < Len(fr) /\ fr[s + 1] = sym

\* the number of slots of role sym before slot s when s has that role, else -1
Ordinal(fr, s, sym) ==
    IF HasRole(fr, s, sym)
    THEN Cardinality({k \in 0..(s - 1) : fr[k + 1] = sym})
    ELSE -1

\* C13: outside reciprocal mode, for every frame and slot, an index query is
\* non-negative exactly when the predicate of the same role is true, and
\* then it is the number of slots of that role before the slot in frame
\* (f mod number of frames); for "BGPGUGDGN" isPilot(0,2), getClientId(0,2)
\* = 0 and isData(0,4).  In reciprocal mode getClientId returns the slot.
C13_ScheduleConsistency ==
    /\ (reciprocal_calib_ /\ q_fn = "getClientId") => q_ret = q_slot
    /\ (~reciprocal_calib_ /\ frames_ # <<>>) =>
          /\ q_fn = "none" => \A f \in FrameIds : \A sl \in SlotIds :
                LET fid == FrameMod(f, Len(frames_))
                IN /\ FindIndex(pilot_symbols_[fid + 1], sl) >= 0
                        <=> RoleAt(fid, sl, "P")
                   /\ FindIndex(ul_symbols_[fid + 1], sl) >= 0
                        <=> RoleAt(fid, sl, "U")
                   /\ FindIndex(noise_symbols_[fid + 1], sl) >= 0
                        <=> RoleAt(fid, sl, "N")
          /\ (q_fn \in {"getClientId", "getUlSFIndex", "getNoiseSFIndex"} /\ q_frame >= 0) =>
                ~q_fault /\ q_ret = Ordinal(QueriedFrame, q_slot, RoleOf(q_fn))
          /\ (q_fn \in BoolQueries /\ q_frame >= 0) =>
                ~q_fault /\ q_ret = BoolInt(HasRole(QueriedFrame, q_slot, RoleOf(q_fn)))
          /\ frames_[1] = <<"B", "G", "P", "G", "U", "G", "D", "G", "N">> =>
                /\ (q_fn = "isPilot" /\ q_frame = 0 /\ q_slot = 2) => q_ret = 1
                /\ (q_fn = "getClientId" /\ q_frame = 0 /\ q_slot = 2) => q_ret = 0
                /\ (q_fn = "isData" /\ q_frame = 0 /\ q_slot = 4) => q_ret = 1

\* an index query has returned the ordinal of a slot that is not the first
\* of its role, in the frame of a cell selected by the modulo
C13_Witness ==
    /\ ~reciprocal_calib_
    /\ q_fn = "getUlSFIndex"
    /\ q_ret >= 1
    /\ Len(frames_) >= 2
    /\ q_frame >= Len(frames_)

(***************************************************************************)
(* PHY part of Config::Config: derived sizes, beacon, clamping, pilot.     *)
(***************************************************************************)

kFpgaTxRamSize == 4096
kMaxSupportedFFTSize == 2048
kMinSupportedFFTSize == 64
kMaxSupportedCPSize == 128
stsReps == 15
goldReps == 2

\* length of CommsLib::getSequence(STS_SEQ) and of getSequence(GOLD_IFFT)
StsLen == 16
GoldLen == 128

\* the values the configuration file may give
SymbolPerSubframeValues == {1, 2, 64}
FftSizeValues == {32, 64, 128, 2048, 4096}
CpSizeValues == {0, 16, 128, 200}
PrefixValues == {0, 82}
PostfixValues == {0, 68}
PilotSeqValues == {"lts", "zadoff-chu"}

\* vector::insert(end(), first, last): the new size
InsertAtEnd_Overwrite(size, n) == n
InsertAtEnd(size, n) == size + n

\* pilot_sym_[0].size(): the LTS for fft_size 64, else the Zadoff-Chu
\* sequence of fft_size samples when it is selected, else nothing
PilotSymLen(fft, seq) ==
    IF fft = 64 THEN 64
    ELSE IF seq = "zadoff-chu" THEN fft
    ELSE 0

PhyInit ==
    /\ symbol_per_subframe_ \in SymbolPerSubframeValues
    /\ fft_size_ \in FftSizeValues
    /\ cp_size_ \in CpSizeValues
    /\ prefix_ \in PrefixValues
    /\ postfix_ \in PostfixValues
    /\ pilot_seq_ \in PilotSeqValues
    /\ ofdm_symbol_size_ = 0
    /\ subframe_size_ = 0
    /\ samps_per_symbol_ = 0
    /\ beacon_ci16_size = 0
    /\ beacon_size_ = 0
    /\ beacon_i = 0
    /\ pilot_size = 0
    /\ phy_pc = "read"

\* lines 65-72: the derived sizes, from the values as read
DeriveSizes ==
    /\ phy_pc = "read"
    /\ ofdm_symbol_size_' = fft_size_ + cp_size_
    /\ subframe_size_' = symbol_per_subframe_ * (fft_size_ + cp_size_)
    /\ samps_per_symbol_' =
          symbol_per_subframe_ * (fft_size_ + cp_size_) + prefix_ + postfix_
    /\ phy_pc' = "sts"
    /\ UNCHANGED <<symbol_per_subframe_, fft_size_, cp_size_, prefix_, postfix_,
                   pilot_seq_, beacon_ci16_size, beacon_size_, beacon_i, pilot_size>>
    /\ UNCHANGED <<calVars, recVars, qVars, thrVars>>

\* lines 325-329: one repetition of the STS sequence
BeaconSts ==
    /\ phy_pc = "sts"
    /\ beacon_i < stsReps
    /\ beacon_ci16_size' = InsertAtEnd(beacon_ci16_size, StsLen)
    /\ beacon_i' = beacon_i + 1
    /\ UNCHANGED <<symbol_per_subframe_, fft_size_, cp_size_, prefix_, postfix_,
                   pilot_seq_, ofdm_symbol_size_, subframe_size_,
                   samps_per_symbol_, beacon_size_, pilot_size, phy_pc>>
    /\ UNCHANGED <<calVars, recVars, qVars, thrVars>>

\* end of the STS loop
BeaconStsDone ==
    /\ phy_pc = "sts"
    /\ beacon_i = stsReps
    /\ beacon_i' = 0
    /\ phy_pc' = "gold"
    /\ UNCHANGED <<symbol_per_subframe_, fft_size_, cp_size_, prefix_, postfix_,
                   pilot_seq_, ofdm_symbol_size_, subframe_size_,
                   samps_per_symbol_, beacon_ci16_size, beacon_size_, pilot_size>>
    /\ UNCHANGED <<calVars, recVars, qVars, thrVars>>

\* lines 332-336: one repetition of the gold sequence
BeaconGold ==
    /\ phy_pc = "gold"
    /\ beacon_i < goldReps
    /\ beacon_ci16_size' = InsertAtEnd(beacon_ci16_size, GoldLen)
    /\ beacon_i' = beacon_i + 1
    /\ UNCHANGED <<symbol_per_subframe_, fft_size_, cp_size_, prefix_, postfix_,
                   pilot_seq_, ofdm_symbol_size_, subframe_size_,
                   samps_per_symbol_, beacon_size_, pilot_size, phy_pc>>
    /\ UNCHANGED <<calVars, recVars, qVars, thrVars>>

\* lines 338-344: beacon_size_ and the check of samps_per_symbol_
BeaconCheck ==
    /\ phy_pc = "gold"
    /\ beacon_i = goldReps
    /\ beacon_size_' = beacon_ci16_size
    /\ phy_pc' = IF samps_per_symbol_ < beacon_ci16_size + prefix_ + postfix_
                 THEN "invalid_argument"
                 ELSE "pad"
    /\ UNCHANGED <<symbol_per_subframe_, fft_size_, cp_size_, prefix_, postfix_,
                   pilot_seq_, ofdm_symbol_size_, subframe_size_,
                   samps_per_symbol_, beacon_ci16_size, beacon_i, pilot_size>>
    /\ UNCHANGED <<calVars, recVars, qVars, thrVars>>

\* lines 349-356: prefix, zero pad up to subframe_size_, postfix
BeaconPad ==
    /\ phy_pc = "pad"
    /\ beacon_ci16_size' =
          prefix_ + beacon_ci16_size + (subframe_size_ - beacon_size_) + postfix_
    /\ phy_pc' = "clamp"
    /\ UNCHANGED <<symbol_per_subframe_, fft_size_, cp_size_, prefix_, postfix_,
                   pilot_seq_, ofdm_symbol_size_, subframe_size_,
                   samps_per_symbol_, beacon_size_, beacon_i, pilot_size>>
    /\ UNCHANGED <<calVars, recVars, qVars, thrVars>>

\* lines 359-375: fft_size_ and cp_size_ are clamped; nothing else is assigned
Clamp ==
    /\ phy_pc = "clamp"
    /\ fft_size_' = IF fft_size_ > kMaxSupportedFFTSize THEN kMaxSupportedFFTSize
                    ELSE IF fft_size_ < kMinSupportedFFTSize THEN kMinSupportedFFTSize
                    ELSE fft_size_
    /\ cp_size_' = IF cp_size_ > kMaxSupportedCPSize THEN 0 ELSE cp_size_
    /\ phy_pc' = "pilot"
    /\ UNCHANGED <<symbol_per_subframe_, prefix_, postfix_, pilot_seq_,
                   ofdm_symbol_size_, subframe_size_, samps_per_symbol_,
                   beacon_ci16_size, beacon_size_, beacon_i, pilot_size>>
    /\ UNCHANGED <<calVars, recVars, qVars, thrVars>>

\* lines 377-402: the pilot subframe.  iq_ci16.end() - cp_size_ lies before
\* begin() when cp_size_ exceeds the sequence length: undefined behaviour,
\* which faults or corrupts the heap.
ComposePilot ==
    /\ phy_pc = "pilot"
    /\ LET symlen == PilotSymLen(fft_size_, pilot_seq_)
       IN IF cp_size_ > symlen
          THEN /\ phy_pc' \in {"fault", "corrupt"}
               /\ pilot_size' = pilot_size
          ELSE /\ phy_pc' = "extend"
               /\ pilot_size' =
                     prefix_ + symbol_per_subframe_ * (cp_size_ + symlen) + postfix_
    /\ UNCHANGED <<symbol_per_subframe_, fft_size_, cp_size_, prefix_, postfix_,
                   pilot_seq_, ofdm_symbol_size_, subframe_size_,
                   samps_per_symbol_, beacon_ci16_size, beacon_size_, beacon_i>>
    /\ UNCHANGED <<calVars, recVars, qVars, thrVars>>

\* lines 404-407: size_t remain_size = kFpgaTxRamSize - pilot_.size(), then
\* remain_size times push_back(0).  For pilot_.size() > kFpgaTxRamSize the
\* subtraction wraps to 2^64 - (pilot_.size() - kFpgaTxRamSize), more
\* entries than a vector can hold: the loop ends in std::bad_alloc with
\* pilot_ longer than it was.
ExtendPilot ==
    /\ phy_pc = "extend"
    /\ IF pilot_size <= kFpgaTxRamSize
       THEN /\ pilot_size' = pilot_size + (kFpgaTxRamSize - pilot_size)
            /\ phy_pc' = "done"
       ELSE /\ pilot_size' = pilot_size + 1
            /\ phy_pc' = "bad_alloc"
    /\ UNCHANGED <<symbol_per_subframe_, fft_size_, cp_size_, prefix_, postfix_,
                   pilot_seq_, ofdm_symbol_size_, subframe_size_,
                   samps_per_symbol_, beacon_ci16_size, beacon_size_, beacon_i>>
    /\ UNCHANGED <<calVars, recVars, qVars, thrVars>>

PhyNext ==
    \/ DeriveSizes
    \/ BeaconSts
    \/ BeaconStsDone
    \/ BeaconGold
    \/ BeaconCheck
    \/ BeaconPad
    \/ Clamp
    \/ ComposePilot
    \/ ExtendPilot

PhyStart == PhyInit /\ QIdle /\ ThrIdle /\ RecIdle /\ CalIdle

PhySpec == PhyStart /\ [][PhyNext]_vars

(***************************************************************************)
(* PHY part of the constructor: claims C14, C15 and C16.                   *)
(***************************************************************************)

\* the beacon has been composed and beacon_size_ assigned
BeaconComposed ==
    phy_pc \in {"invalid_argument", "pad", "clamp", "pilot", "extend", "done",
                "bad_alloc", "fault", "corrupt"}

\* C14 as stated: the composed beacon, 15 repetitions of the 16-sample STS
\* sequence and 2 of the 128-sample gold sequence, has 464 samples, and that
\* is the beacon_size of the check
\* samps_per_symbol >= beacon_size + prefix + postfix.
C14_BeaconSizeAsStated ==
    /\ (phy_pc = "gold" /\ beacon_i = goldReps) => beacon_ci16_size = 464
    /\ BeaconComposed =>
          /\ beacon_size_ = 464
          /\ phy_pc = "invalid_argument"
                <=> samps_per_symbol_ < 464 + prefix_ + postfix_

\* C14 amended: the composed beacon has 15 * 16 + 2 * 128 = 496 samples, and
\* that is the beacon_size of the check.
C14_BeaconSize ==
    /\ (phy_pc = "gold" /\ beacon_i = goldReps) => beacon_ci16_size = 496
    /\ BeaconComposed =>
          /\ beacon_size_ = 15 * 16 + 2 * 128
          /\ beacon_size_ = 496
          /\ phy_pc = "invalid_argument"
                <=> samps_per_symbol_ < 496 + prefix_ + postfix_

\* a configuration has passed the beacon check with non-zero prefix and postfix
C14_Witness ==
    /\ phy_pc = "pad"
    /\ prefix_ > 0
    /\ postfix_ > 0

\* the constructor has passed its checks and has extended the packed pilot
PilotExtended == phy_pc \in {"done", "bad_alloc"}

\* C15: for every accepted configuration the packed pilot has exactly
\* kFpgaTxRamSize = 4096 entries after zero-extension.
C15_PackedPilotSize ==
    PilotExtended =>
        /\ fft_size_ >= 64 /\ fft_size_ <= 2048
        /\ cp_size_ <= 128
        /\ pilot_size = 4096
        /\ phy_pc = "done"

\* C16: after configuration completes fft_size is in [64, 2048], cp_size is
\* at most 128 and the derived sizes agree with the final parameters.
C16_DerivedSizes ==
    phy_pc = "done" =>
        /\ fft_size_ >= 64 /\ fft_size_ <= 2048
        /\ cp_size_ <= 128
        /\ ofdm_symbol_size_ = fft_size_ + cp_size_
        /\ subframe_size_ = symbol_per_subframe_ * ofdm_symbol_size_
        /\ samps_per_symbol_ = subframe_size_ + prefix_ + postfix_

(***************************************************************************)
(* Thread settings of Config::Config, Config::getTotNumAntennas and the    *)
(* ring size of Recorder::Recorder.                                        *)
(***************************************************************************)

\* Bounds of the thread model: cores of the host, the configured
\* "task_thread" value and the number of client SDRs.
MaxCores == 9
MaxTaskThreads == 4
MaxClSdrs == 2

\* include/macros.h
RX_THREAD_NUM == 4

kSampleBufferFrameNum == 80

\* the frame schedules of the thread model: every cell has the same string
ThreadFrameStrings ==
    { <<"B", "G", "P", "G", "U", "G", "D", "G", "N">>,
      <<"G", "G", "G">> }

\* symbols_per_frame_ of a configuration without base station: the length
\* of the first client frame string
ClientFrameLengths == {3, 9}

MinOf(a, b) == IF a < b THEN a ELSE b

\* Config::getTotNumAntennas
RECURSIVE TotNumSdr(_, _)
TotNumSdr(sdrs, recip) ==
    IF sdrs = <<>> THEN 0
    ELSE Head(sdrs) - (IF recip THEN 1 ELSE 0) + TotNumSdr(Tail(sdrs), recip)

getTotNumAntennas ==
    IF ~bs_present_ THEN 1
    ELSE TotNumSdr(n_bs_sdrs_, reciprocal_calib_) * num_channels

\* pilot_syms_per_frame_ + ul_syms_per_frame_ (lines 180-182, 193-195)
PilotAndUlSyms ==
    IF reciprocal_calib_ THEN 2 + 0
    ELSE Len(pilot_symbols_[1]) + Len(ul_symbols_[1])

ThrInit ==
    /\ num_cores \in 1..MaxCores
    /\ bs_present_ \in BOOLEAN
    /\ client_present_ \in BOOLEAN
    /\ num_cl_sdrs_ \in (IF client_present_ THEN 1..MaxClSdrs ELSE {0})
    /\ task_thread \in 1..MaxTaskThreads
    /\ bs_present_ \/ client_present_
    /\ reciprocal_calib_ \in (IF bs_present_ THEN BOOLEAN ELSE {FALSE})
    /\ n_bs_sdrs_ \in (IF bs_present_ THEN SeqsUpTo(1..MaxSdrs, MaxCells) ELSE {<<>>})
    /\ num_channels \in (IF bs_present_ THEN {1, 2} ELSE {1})
    /\ frames_ \in (IF bs_present_ /\ ~reciprocal_calib_
                    THEN {[c \in 1..Len(n_bs_sdrs_) |-> fr] : fr \in ThreadFrameStrings}
                    ELSE {<<>>})
    /\ symbols_per_frame_ = 0
    /\ core_alloc_ = FALSE
    /\ rx_thread_num_ = 0
    /\ task_thread_num_ = 0
    /\ ant_per_rx_thread = 0
    /\ rx_thread_buff_size_ = 0
    /\ thr_pc = "schedule"
    /\ cal_ref_sdr_id_ = 0
    /\ calib_frames_ = <<>>
    /\ cal_c = 0
    /\ cal_i = 0
    /\ cal_pc = "idle"
    /\ q_fn = "none"
    /\ q_frame = 0
    /\ q_slot = 0
    /\ q_ret = 0
    /\ q_fault = FALSE

\* what the schedule part of the constructor leaves in symbols_per_frame_:
\* line 179 (calib_frames_.at(0) was resized to n_bs_sdrs_[0] at line 157),
\* line 192, or line 293 without a base station
LoadSchedule ==
    /\ thr_pc = "schedule"
    /\ symbols_per_frame_' \in
          (IF ~bs_present_ THEN ClientFrameLengths
           ELSE IF reciprocal_calib_ THEN {n_bs_sdrs_[1]}
           ELSE {Len(frames_[1])})
    /\ thr_pc' = "threads"
    /\ UNCHANGED <<num_cores, bs_present_, client_present_, num_cl_sdrs_,
                   task_thread, core_alloc_, rx_thread_num_, task_thread_num_,
                   ant_per_rx_thread, rx_thread_buff_size_>>
    /\ UNCHANGED <<n_bs_sdrs_, num_channels, cal_ref_sdr_id_, calib_frames_,
                   cal_c, cal_i, cal_pc>>
    /\ UNCHANGED <<recVars, qVars, phyVars>>

\* lines 453-475: the multi-threading settings
ThreadSettings ==
    /\ thr_pc = "threads"
    /\ IF bs_present_ /\ PilotAndUlSyms > 0
       THEN LET rx == IF reciprocal_calib_ THEN 2
                      ELSE IF num_cores >= 2 * RX_THREAD_NUM
                           THEN MinOf(RX_THREAD_NUM, SumSeq(n_bs_sdrs_))
                           ELSE 1
            IN /\ task_thread_num_' = task_thread
               /\ rx_thread_num_' = rx
               /\ core_alloc_' =
                     IF client_present_
                        /\ num_cores < 1 + task_thread + rx + num_cl_sdrs_
                     THEN FALSE
                     ELSE num_cores > RX_THREAD_NUM
       ELSE /\ rx_thread_num_' = 0
            /\ task_thread_num_' = 0
            /\ core_alloc_' =
                  IF client_present_ /\ num_cores <= 1 + num_cl_sdrs_
                  THEN FALSE
                  ELSE num_cores > RX_THREAD_NUM
    /\ thr_pc' = "recorder"
    /\ UNCHANGED <<num_cores, bs_present_, client_present_, num_cl_sdrs_,
                   task_thread, ant_per_rx_thread, rx_thread_buff_size_>>
    /\ UNCHANGED <<calVars, recVars, qVars, phyVars>>

\* lines 749-754: the ring size of one receive worker
RecorderSizes ==
    /\ thr_pc = "recorder"
    /\ LET ant == IF bs_present_ /\ rx_thread_num_ > 0
                  THEN getTotNumAntennas \div rx_thread_num_
                  ELSE 1
       IN /\ ant_per_rx_thread' = ant
          /\ rx_thread_buff_size_' = kSampleBufferFrameNum * symbols_per_frame_ * ant
    /\ thr_pc' = "done"
    /\ UNCHANGED <<num_cores, bs_present_, client_present_, num_cl_sdrs_,
                   task_thread, core_alloc_, rx_thread_num_, task_thread_num_>>
    /\ UNCHANGED <<calVars, recVars, qVars, phyVars>>

ThrNext == LoadSchedule \/ ThreadSettings \/ RecorderSizes

ThrStart == ThrInit /\ PhyIdle /\ RecIdle

ThreadSpec == ThrStart /\ [][ThrNext]_vars

(***************************************************************************)
(* Thread settings: claims C17 and C20.                                    *)
(***************************************************************************)

\* the threads the clients need: one per client SDR when clients are present
ClientThreads == IF client_present_ THEN num_cl_sdrs_ ELSE 0

\* C17: after configuration, core_alloc is false whenever the host has fewer
\* cores than 1 + task_thread_num + rx_thread_num + client_threads, zero
\* clients included.
C17_NoPinningOnSmallHost ==
    (thr_pc \in {"recorder", "done"}
     /\ num_cores < 1 + task_thread_num_ + rx_thread_num_ + ClientThreads)
        => core_alloc_ = FALSE

\* the antennas of all cells, the reference SDR of each cell left out in
\* reciprocal mode
AntennaTotal ==
    LET per(c) == (n_bs_sdrs_[c] - (IF reciprocal_calib_ THEN 1 ELSE 0)) * num_channels
        sum[c \in 0..Len(n_bs_sdrs_)] == IF c = 0 THEN 0 ELSE sum[c - 1] + per(c)
    IN sum[Len(n_bs_sdrs_)]

\* C20: whenever receive workers are configured every worker's ring holds at
\* least one packet, rx_thread_buff_size = 80 * symbols_per_frame *
\* floor(total_antennas / rx_thread_num) >= 1, and the rings of all workers
\* together cover every antenna.
C20_RingCapacity ==
    (thr_pc = "done" /\ rx_thread_num_ > 0) =>
        /\ rx_thread_buff_size_ =
              80 * symbols_per_frame_ * (AntennaTotal \div rx_thread_num_)
        /\ rx_thread_buff_size_ >= 1
        /\ rx_thread_num_ * (AntennaTotal \div rx_thread_num_) >= AntennaTotal

====
